---------------------------- MODULE Spec2Model ----------------------------
(***************************************************************************)
(* A model of src/gallium/drivers/zink/zink_extensions.py: the Extension   *)
(* descriptor and the ExtensionRegistry built from the Vulkan registry     *)
(* document.                                                               *)
(*                                                                         *)
(* Python strings are sequences of one-character strings, so that split,   *)
(* title, startswith, endswith, int and the regular expressions are        *)
(* computed character by character, as the interpreter computes them.      *)
(* Python's None is the one-element sequence NoneVal, whose element is no  *)
(* character, so that it differs from every string, the empty one too.     *)
(***************************************************************************)
EXTENDS Integers, Sequences, FiniteSets

VARIABLES
    registry,   \* ExtensionRegistry.registry: the class-level dict
    inst,       \* each ExtensionRegistry instance: "none", "built" or "failed"
    doc,        \* the document each instance was constructed from
    ext,        \* the Extension object last constructed (NoExt before)
    call        \* the last call made: operation, receiver, argument, result

vars == <<registry, inst, doc, ext, call>>

----------------------------------------------------------------------------
(* Bounds of the model *)

MaxNameTail == 3
MaxKind == 2
MaxPromoTail == 5
MaxCmds == 2
MaxEnums == 2
MaxTypes == 2

----------------------------------------------------------------------------
(* Python values *)

NoneVal == <<"<None>">>

Truthy(v) == v /= NoneVal /\ v /= <<>>

Max2(a, b) == IF a >= b THEN a ELSE b

RECURSIVE SeqsUpTo(_, _)
SeqsUpTo(S, n) ==
    IF n = 0 THEN {<<>>}
    ELSE LET shorter == SeqsUpTo(S, n - 1)
         IN  shorter \cup {Append(s, x) : s \in shorter, x \in S}

RECURSIVE Concat(_)
Concat(ss) == IF ss = <<>> THEN <<>> ELSE Head(ss) \o Concat(Tail(ss))

(* str.startswith / str.endswith *)
StartsWith(s, p) == Len(p) <= Len(s) /\ SubSeq(s, 1, Len(p)) = p

EndsWith(s, p) == Len(p) <= Len(s) /\ SubSeq(s, Len(s) - Len(p) + 1, Len(s)) = p

(* str.split(sep) for a one-character separator: never an empty list *)
RECURSIVE SplitAcc(_, _, _, _, _)
SplitAcc(s, sep, i, cur, acc) ==
    IF i > Len(s) THEN Append(acc, cur)
    ELSE IF s[i] = sep THEN SplitAcc(s, sep, i + 1, <<>>, Append(acc, cur))
    ELSE SplitAcc(s, sep, i + 1, Append(cur, s[i]), acc)

Split(s, sep) == SplitAcc(s, sep, 1, <<>>, <<>>)

(* list[k:] for k >= 0 and list[-2:] *)
SliceFrom(l, k) == IF k >= Len(l) THEN <<>> ELSE SubSeq(l, k + 1, Len(l))

LastTwo(l) == SubSeq(l, Max2(1, Len(l) - 1), Len(l))

LowerChars == <<"a","b","c","d","e","f","g","h","i","j","k","l","m",
                "n","o","p","q","r","s","t","u","v","w","x","y","z">>
UpperChars == <<"A","B","C","D","E","F","G","H","I","J","K","L","M",
                "N","O","P","Q","R","S","T","U","V","W","X","Y","Z">>

IsLower(c) == \E i \in 1..Len(LowerChars) : LowerChars[i] = c
IsUpper(c) == \E i \in 1..Len(UpperChars) : UpperChars[i] = c
IsCased(c) == IsLower(c) \/ IsUpper(c)

ToUpper(c) ==
    IF IsLower(c)
    THEN UpperChars[CHOOSE i \in 1..Len(LowerChars) : LowerChars[i] = c]
    ELSE c

ToLower(c) ==
    IF IsUpper(c)
    THEN LowerChars[CHOOSE i \in 1..Len(UpperChars) : UpperChars[i] = c]
    ELSE c

(* str.title(): a cased character is upper-cased after an uncased one (or *)
(* at the start) and lower-cased after a cased one                         *)
RECURSIVE TitleFrom(_, _, _)
TitleFrom(s, i, prevCased) ==
    IF i > Len(s) THEN <<>>
    ELSE IF IsCased(s[i])
         THEN <<IF prevCased THEN ToLower(s[i]) ELSE ToUpper(s[i])>>
              \o TitleFrom(s, i + 1, TRUE)
         ELSE <<s[i]>> \o TitleFrom(s, i + 1, FALSE)

Title(s) == TitleFrom(s, 1, FALSE)

----------------------------------------------------------------------------
(* class Extension *)

VkPrefix == <<"V","K","_">>
Vendors == {<<"E","X","T">>, <<"K","H","R">>}
NameChars == {"f", "F", "2", "_"}
KindChars == {"F", "f"}

(* names that follow the two-leading-token convention: VK_<vendor>_<tail> *)
ExtNames ==
    {VkPrefix \o v \o <<"_">> \o t : v \in Vendors, t \in SeqsUpTo(NameChars, MaxNameTail)}

StructKinds == SeqsUpTo(KindChars, MaxKind)

Aliases == {NoneVal, <<>>, <<"r","b","2">>}

NoExt == [name |-> NoneVal, alias |-> NoneVal, is_required |-> FALSE,
          is_nonstandard |-> FALSE, has_properties |-> FALSE,
          has_features |-> FALSE, guard |-> FALSE]

(* the fields __init__ stores, before its check *)
NewExtension(name, alias, properties, features) ==
    [name |-> name, alias |-> alias, is_required |-> FALSE,
     is_nonstandard |-> FALSE, has_properties |-> properties,
     has_features |-> features, guard |-> FALSE]

(* the condition under which __init__ raises RuntimeError *)
InitRaises(alias, properties, features) ==
    alias = <<>> /\ (properties = TRUE \/ features = TRUE)

name_in_camel_case(e) ==
    LET toks == SliceFrom(Split(e.name, "_"), 2)
    IN  Concat([i \in 1..Len(toks) |-> Title(toks[i])])

vendor(e) == Split(e.name, "_")[2]

VkPhysicalDevice ==
    <<"V","k","P","h","y","s","i","c","a","l","D","e","v","i","c","e">>

AlwaysAppendStruct(e, struct) ==
    VkPhysicalDevice \o name_in_camel_case(e) \o struct \o vendor(e)

physical_device_struct(e, struct) ==
    LET s == IF EndsWith(name_in_camel_case(e), struct) THEN <<>> ELSE struct
    IN  VkPhysicalDevice \o name_in_camel_case(e) \o s \o vendor(e)

(* the ExtensionRegistry instances a behaviour may construct *)
Instances == {"R1", "R2"}

NoCall == [op |-> "none", self |-> NoneVal, arg |-> NoneVal,
           tag |-> "None", val |-> NoneVal]

(* Extension(name, alias=..., properties=..., features=...) *)
ExtensionInit(name, alias, properties, features) ==
    /\ IF InitRaises(alias, properties, features)
       THEN /\ call' = [op |-> "Extension", self |-> name, arg |-> alias,
                        tag |-> "RuntimeError",
                        val |-> NewExtension(name, alias, properties, features)]
            /\ ext' = ext
       ELSE /\ call' = [op |-> "Extension", self |-> name, arg |-> alias,
                        tag |-> "ok",
                        val |-> NewExtension(name, alias, properties, features)]
            /\ ext' = NewExtension(name, alias, properties, features)
    /\ UNCHANGED <<registry, inst, doc>>

(* ext.physical_device_struct(struct) *)
PhysicalDeviceStruct(struct) ==
    /\ call' = [op |-> "physical_device_struct", self |-> ext.name,
                arg |-> struct, tag |-> "str",
                val |-> physical_device_struct(ext, struct)]
    /\ UNCHANGED <<registry, inst, doc, ext>>

Init ==
    /\ registry = <<>>
    /\ inst = [r \in Instances |-> "none"]
    /\ doc = [r \in Instances |-> <<>>]
    /\ ext = NoExt
    /\ call = NoCall

(* a behaviour follows one descriptor: its construction, and then one call *)
(* of the method on the object constructed                                 *)
NextExtension ==
    \/ /\ call = NoCall
       /\ \E n \in ExtNames, a \in Aliases, p \in BOOLEAN, f \in BOOLEAN :
             ExtensionInit(n, a, p, f)
    \/ /\ ext /= NoExt
       /\ call.op = "Extension"
       /\ \E k \in StructKinds : PhysicalDeviceStruct(k)

SpecExtension == Init /\ [][NextExtension]_vars

----------------------------------------------------------------------------
(* ExtensionRegistry.parse_promotedto *)

VkVersionPrefix == <<"V","K","_","V","E","R","S","I","O","N","_">>
VkKhrPrefix == <<"V","K","_","K","H","R","_">>
PromoChars == {"1", "2", "_", "x"}

(* the values of the promotedto attribute: absent, or a string *)
PromoInputs ==
    {NoneVal} \cup
    {pre \o t : pre \in {<<>>, VkVersionPrefix, VkKhrPrefix},
                t \in SeqsUpTo(PromoChars, MaxPromoTail)}

Digits == <<"0","1","2","3","4","5","6","7","8","9">>

IsDigit(c) == \E i \in 1..Len(Digits) : Digits[i] = c

DigitValue(c) == (CHOOSE i \in 1..Len(Digits) : Digits[i] = c) - 1

AllDigits(s) == Len(s) > 0 /\ \A i \in 1..Len(s) : IsDigit(s[i])

RECURSIVE DecimalValue(_)
DecimalValue(s) ==
    IF s = <<>> THEN 0
    ELSE 10 * DecimalValue(SubSeq(s, 1, Len(s) - 1)) + DigitValue(s[Len(s)])

(* int(s): an optional sign and decimal digits; ValueError otherwise *)
IntParses(s) ==
    \/ AllDigits(s)
    \/ Len(s) > 1 /\ s[1] \in {"+", "-"} /\ AllDigits(Tail(s))

IntOf(s) ==
    IF s[1] = "-" THEN 0 - DecimalValue(Tail(s))
    ELSE IF s[1] = "+" THEN DecimalValue(Tail(s))
    ELSE DecimalValue(s)

Returned(tag, val) == [tag |-> tag, val |-> val]

parse_promotedto(promotedto) ==
    IF Truthy(promotedto) /\ StartsWith(promotedto, VkVersionPrefix)
    THEN LET mm == LastTwo(Split(promotedto, "_"))
         IN  IF IntParses(mm[1]) /\ IntParses(mm[2])
             THEN Returned("tuple", <<IntOf(mm[1]), IntOf(mm[2])>>)
             ELSE Returned("ValueError", NoneVal)
    ELSE Returned("None", NoneVal)

(* registry.parse_promotedto(p) *)
ParsePromotedto(p) ==
    /\ call' = [op |-> "parse_promotedto", self |-> NoneVal, arg |-> p,
                tag |-> parse_promotedto(p).tag,
                val |-> parse_promotedto(p).val]
    /\ UNCHANGED <<registry, inst, doc, ext>>

(* a behaviour follows one call *)
NextPromotedto == call = NoCall /\ \E p \in PromoInputs : ParsePromotedto(p)

SpecPromotedto == Init /\ [][NextPromotedto]_vars

----------------------------------------------------------------------------
(* class ExtensionRegistry *)

(* attributes the code only compares or copies are plain strings, Absent   *)
(* standing for a missing attribute (ext.get(...) is None)                 *)
Absent == "<absent>"
Supported == {Absent, "disabled", "vulkan"}

RegNames == {<<"V","K","_","E","X","T","_","a">>, <<"V","K","_","K","H","R","_","b">>}

Features == <<"F","e","a","t","u","r","e","s">>
Properties == <<"P","r","o","p","e","r","t","i","e","s">>

(* re.match(r"VkPhysicalDevice.*<word>.*", s): anchored at the start, and  *)
(* "." matches every character but the newline                             *)
RegexMatch(s, word) ==
    /\ StartsWith(s, VkPhysicalDevice)
    /\ \E i \in (Len(VkPhysicalDevice) + 1)..(Len(s) - Len(word) + 1) :
          /\ SubSeq(s, i, i + Len(word) - 1) = word
          /\ \A j \in (Len(VkPhysicalDevice) + 1)..(i - 1) : s[j] /= "\n"

is_features_struct(struct) == RegexMatch(struct, Features)

is_properties_struct(struct) == RegexMatch(struct, Properties)

(* ext.findall("require/<kind>"): the children of that kind, in document  *)
(* order                                                                   *)
RECURSIVE FindAll(_, _)
FindAll(require, kind) ==
    IF require = <<>> THEN <<>>
    ELSE IF Head(require).kind = kind
         THEN <<Head(require)>> \o FindAll(Tail(require), kind)
         ELSE FindAll(Tail(require), kind)

(* the loop over require/command *)
RECURSIVE CommandsLoop(_)
CommandsLoop(cmds) ==
    IF cmds = <<>> THEN <<>>
    ELSE IF Truthy(Head(cmds).name)
         THEN <<Head(cmds).name>> \o CommandsLoop(Tail(cmds))
         ELSE CommandsLoop(Tail(cmds))

RECURSIVE CommandsLoopNotNone(_)
CommandsLoopNotNone(cmds) ==
    IF cmds = <<>> THEN <<>>
    ELSE IF Head(cmds).name /= NoneVal
         THEN <<Head(cmds).name>> \o CommandsLoopNotNone(Tail(cmds))
         ELSE CommandsLoopNotNone(Tail(cmds))

commands_if_not_none(e) == CommandsLoopNotNone(FindAll(e.require, "command"))

entry_commands(e) == CommandsLoop(FindAll(e.require, "command"))

(* the loop over require/enum *)
RECURSIVE ConstantsLoop(_)
ConstantsLoop(enums) ==
    IF enums = <<>> THEN <<>>
    ELSE IF ~Truthy(Head(enums).extends)
         THEN <<Head(enums).name>> \o ConstantsLoop(Tail(enums))
         ELSE ConstantsLoop(Tail(enums))

entry_constants(e) == ConstantsLoop(FindAll(e.require, "enum"))

(* the loop over require/type, from the class defaults (None, None) *)
RECURSIVE TypesLoop(_, _, _)
TypesLoop(types, f, p) ==
    IF types = <<>> THEN [features_struct |-> f, properties_struct |-> p]
    ELSE IF is_features_struct(Head(types).name)
         THEN TypesLoop(Tail(types), Head(types).name, p)
         ELSE IF is_properties_struct(Head(types).name)
              THEN TypesLoop(Tail(types), f, Head(types).name)
              ELSE TypesLoop(Tail(types), f, p)

RECURSIVE TypesLoopFirstWins(_, _, _)
TypesLoopFirstWins(types, f, p) ==
    IF types = <<>> THEN [features_struct |-> f, properties_struct |-> p]
    ELSE IF is_features_struct(Head(types).name)
         THEN TypesLoopFirstWins(Tail(types),
                                 IF f = NoneVal THEN Head(types).name ELSE f, p)
         ELSE IF is_properties_struct(Head(types).name)
              THEN TypesLoopFirstWins(Tail(types), f,
                                      IF p = NoneVal THEN Head(types).name ELSE p)
              ELSE TypesLoopFirstWins(Tail(types), f, p)

structs_first_wins(e) == TypesLoopFirstWins(FindAll(e.require, "type"), NoneVal, NoneVal)

entry_structs(e) == TypesLoop(FindAll(e.require, "type"), NoneVal, NoneVal)

(* the ExtensionRegistryEntry the loop body builds for one element *)
NewEntry(e) ==
    [ext_type |-> e.type,
     promoted_in |-> parse_promotedto(e.promotedto),
     commands |-> entry_commands(e),
     constants |-> entry_constants(e),
     features_struct |-> entry_structs(e).features_struct,
     properties_struct |-> entry_structs(e).properties_struct]

(* self.registry[name] = entry *)
Put(reg, name, entry) ==
    [n \in DOMAIN reg \cup {name} |-> IF n = name THEN entry ELSE reg[n]]

(* the loop over extensions/extension from element i on: the dict it      *)
(* leaves, and whether it ran to the end or parse_promotedto raised        *)
RECURSIVE LoadFrom(_, _, _)
LoadFrom(reg, d, i) ==
    IF i > Len(d) THEN [reg |-> reg, tag |-> "ok"]
    ELSE IF d[i].supported = "disabled" THEN LoadFrom(reg, d, i + 1)
    ELSE IF parse_promotedto(d[i].promotedto).tag = "ValueError"
         THEN [reg |-> reg, tag |-> "ValueError"]
         ELSE LoadFrom(Put(reg, d[i].name, NewEntry(d[i])), d, i + 1)

in_registry(reg, ext_name) == ext_name \in DOMAIN reg

get_registry_entry(reg, ext_name) ==
    IF in_registry(reg, ext_name)
    THEN Returned("entry", reg[ext_name])
    ELSE Returned("None", NoneVal)

(* r = ExtensionRegistry(path), the document at path being d: self.registry *)
(* is the class attribute, no instance ever binding a dict of its own      *)
Construct(r, d) ==
    /\ registry' = LoadFrom(registry, d, 1).reg
    /\ inst' = [inst EXCEPT ![r] =
                   IF LoadFrom(registry, d, 1).tag = "ok" THEN "built" ELSE "failed"]
    /\ doc' = [doc EXCEPT ![r] = d]
    /\ call' = [op |-> "ExtensionRegistry", self |-> r, arg |-> NoneVal,
                tag |-> LoadFrom(registry, d, 1).tag, val |-> NoneVal]
    /\ UNCHANGED ext

(* r.in_registry(n) *)
InRegistry(r, n) ==
    /\ inst[r] = "built"
    /\ call' = [op |-> "in_registry", self |-> r, arg |-> n,
                tag |-> "bool", val |-> in_registry(registry, n)]
    /\ UNCHANGED <<registry, inst, doc, ext>>

(* r.get_registry_entry(n) *)
GetRegistryEntry(r, n) ==
    /\ inst[r] = "built"
    /\ call' = [op |-> "get_registry_entry", self |-> r, arg |-> n,
                tag |-> get_registry_entry(registry, n).tag,
                val |-> get_registry_entry(registry, n).val]
    /\ UNCHANGED <<registry, inst, doc, ext>>

(* the documents: extension elements in document order, their names       *)
(* distinct; an element's require children are in document order too       *)
Element(n, s, p, require) ==
    [name |-> n, supported |-> s, type |-> "device", promotedto |-> p,
     require |-> require]

Command(name) == [kind |-> "command", name |-> name, extends |-> NoneVal]
Enum(name, extends) == [kind |-> "enum", name |-> name, extends |-> extends]
Type(name) == [kind |-> "type", name |-> name, extends |-> NoneVal]

VkVersion12 == VkVersionPrefix \o <<"1","_","2">>
VkVersion1 == VkVersionPrefix \o <<"1">>

NamePairs == {q \in RegNames \X RegNames : q[1] /= q[2]}

(* elements without children, enabled or not, promoted or not *)
PlainElements ==
    {Element(n, s, p, <<>>) :
        n \in RegNames, s \in Supported, p \in {NoneVal, VkVersion12, VkVersion1}}

PlainDocs ==
    {<<>>} \cup {<<e>> : e \in PlainElements}
           \cup {d \in {<<e1, e2>> : e1 \in PlainElements, e2 \in PlainElements} :
                    d[1].name /= d[2].name}

(* documents of one or two elements with at most max require children in   *)
(* all, drawn from children                                                *)
DocsWithChildren(children, max) ==
    LET lists == SeqsUpTo(children, max)
        split == {q \in lists \X lists : Len(q[1]) + Len(q[2]) <= max}
    IN  {<<Element(n, s, NoneVal, l)>> : n \in RegNames, s \in Supported, l \in lists}
        \cup {<<Element(nn[1], s1, NoneVal, q[1]), Element(nn[2], s2, NoneVal, q[2])>> :
                 nn \in NamePairs, s1 \in Supported, s2 \in Supported, q \in split}

CmdF == <<"v","k","F">>
CmdG == <<"v","k","G">>
EnumN == <<"N","A","M","E">>
EnumV == <<"V","A","L">>
EnumBase == <<"V","k","B","a","s","e">>
TypeF == VkPhysicalDevice \o Features
TypeXF == VkPhysicalDevice \o <<"X">> \o Features \o <<"E","X","T">>
TypeP == VkPhysicalDevice \o Properties
TypeXP == VkPhysicalDevice \o <<"X">> \o Properties \o <<"E","X","T">>
TypeFP == VkPhysicalDevice \o Features \o Properties
TypeNot == <<"X">> \o VkPhysicalDevice \o Features

CommandChildren ==
    {Command(c) : c \in {NoneVal, <<>>, CmdF, CmdG}}
    \cup {Enum(EnumN, NoneVal), Type(TypeF)}

EnumChildren ==
    {Enum(n, x) : n \in {EnumN, EnumV}, x \in {NoneVal, <<>>, EnumBase}}
    \cup {Command(CmdF), Type(TypeF)}

TypeChildren ==
    {Type(t) : t \in {TypeF, TypeXF, TypeP, TypeXP, TypeFP, TypeNot}}
    \cup {Command(CmdF), Enum(EnumN, NoneVal)}

CommandDocs == DocsWithChildren(CommandChildren, MaxCmds)
EnumDocs == DocsWithChildren(EnumChildren, MaxEnums)
TypeDocs == DocsWithChildren(TypeChildren, MaxTypes)

(* an instance is constructed once *)
NextRegistry ==
    \/ \E r \in Instances :
          inst[r] = "none" /\ \E d \in PlainDocs : Construct(r, d)
    \/ \E r \in Instances, n \in RegNames : InRegistry(r, n)
    \/ \E r \in Instances, n \in RegNames : GetRegistryEntry(r, n)

SpecRegistry == Init /\ [][NextRegistry]_vars

(* one registry, built from a document whose elements require commands *)
NextCommands ==
    \/ inst["R1"] = "none" /\ \E d \in CommandDocs : Construct("R1", d)
    \/ \E n \in RegNames : GetRegistryEntry("R1", n)

SpecCommands == Init /\ [][NextCommands]_vars

(* one registry, built from a document whose elements require enums *)
NextConstants ==
    \/ inst["R1"] = "none" /\ \E d \in EnumDocs : Construct("R1", d)
    \/ \E n \in RegNames : GetRegistryEntry("R1", n)

SpecConstants == Init /\ [][NextConstants]_vars

(* one registry, built from a document whose elements require types *)
NextTypes ==
    \/ inst["R1"] = "none" /\ \E d \in TypeDocs : Construct("R1", d)
    \/ \E n \in RegNames : GetRegistryEntry("R1", n)

SpecTypes == Init /\ [][NextTypes]_vars

----------------------------------------------------------------------------
(* Claims about Extension, checked under SpecExtension *)

WantsStruct(e) == e.has_properties = TRUE \/ e.has_features = TRUE

(* C1: constructing an Extension with features or properties set and no    *)
(* alias (omitted or empty, or None) fails with the configuration error,  *)
(* constructing it with an alias succeeds, and hence every constructed     *)
(* Extension that has features or properties carries an alias.             *)
C1_AliasRequired ==
    /\ call.op = "Extension" =>
          /\ (WantsStruct(call.val) /\ ~Truthy(call.arg)) => call.tag = "RuntimeError"
          /\ Truthy(call.arg) => call.tag = "ok"
    /\ (ext /= NoExt /\ WantsStruct(ext)) => Truthy(ext.alias)

(* the two-case value the claim gives for physical_device_struct *)
C10_Expected(e, kind) ==
    IF EndsWith(name_in_camel_case(e), kind)
    THEN VkPhysicalDevice \o name_in_camel_case(e) \o vendor(e)
    ELSE VkPhysicalDevice \o name_in_camel_case(e) \o kind \o vendor(e)

(* C10 as stated: physical_device_struct(kind) is the prefix, the camel-   *)
(* cased name, kind unless the camel-cased name ends with it, and the      *)
(* vendor; so a (non-empty) kind never stands twice in a row at the end of *)
(* the camel-cased part of the result.                                     *)
C10_NeverTwice ==
    call.op = "physical_device_struct" =>
        /\ call.val = C10_Expected(ext, call.arg)
        /\ call.arg /= <<>> =>
              ~EndsWith(call.val, call.arg \o call.arg \o vendor(ext))

(* C10 as amended: the same value, and kind stands twice in a row at the   *)
(* end of the camel-cased part only when the camel-cased name itself ends  *)
(* with kind twice: the method never appends kind after a name that ends   *)
(* with it.                                                                *)
C10_NoAppendedDuplicate ==
    call.op = "physical_device_struct" =>
        /\ call.val = C10_Expected(ext, call.arg)
        /\ (call.arg /= <<>>
            /\ EndsWith(call.val, call.arg \o call.arg \o vendor(ext)))
           => EndsWith(name_in_camel_case(ext), call.arg \o call.arg)

(* C10's case: the camel-cased name ends with the kind asked for, which is *)
(* left out of the result                                                  *)
C10_Witness ==
    /\ call.op = "physical_device_struct"
    /\ call.arg /= <<>>
    /\ EndsWith(name_in_camel_case(ext), call.arg)
    /\ call.val = VkPhysicalDevice \o name_in_camel_case(ext) \o vendor(ext)

----------------------------------------------------------------------------
(* Claims about parse_promotedto, checked under SpecPromotedto *)

(* C2: parse_promotedto never raises: every value gives a pair or None.    *)
C2_NeverRaises ==
    call.op = "parse_promotedto" => call.tag \in {"tuple", "None"}

(* the bare API-version token: the prefix, a major number, one underscore  *)
(* and a minor number, and nothing else                                    *)
IsBareVersionToken(v) ==
    /\ v /= NoneVal
    /\ StartsWith(v, VkVersionPrefix)
    /\ LET t == SliceFrom(v, Len(VkVersionPrefix))
       IN  \E k \in 1..Len(t) :
              /\ t[k] = "_"
              /\ AllDigits(SubSeq(t, 1, k - 1))
              /\ AllDigits(SubSeq(t, k + 1, Len(t)))

BareVersionPair(v) ==
    LET t == SliceFrom(v, Len(VkVersionPrefix))
        k == CHOOSE j \in 1..Len(t) : t[j] = "_"
    IN  <<DecimalValue(SubSeq(t, 1, k - 1)), DecimalValue(SubSeq(t, k + 1, Len(t)))>>

(* C7: parse_promotedto(value) is the pair (major, minor) exactly when     *)
(* value is the bare API-version token, and None for every other value.    *)
(* Stated of the calls that return: the calls that raise are C2's.         *)
C7_PairIffBareToken ==
    (call.op = "parse_promotedto" /\ call.tag /= "ValueError") =>
        IF IsBareVersionToken(call.arg)
        THEN call.tag = "tuple" /\ call.val = BareVersionPair(call.arg)
        ELSE call.tag = "None"

----------------------------------------------------------------------------
(* Claims about ExtensionRegistry *)

Enabled(e) == e.supported /= "disabled"

MarkedDisabled(d, n) ==
    \E i \in 1..Len(d) : d[i].name = n /\ d[i].supported = "disabled"

Contains(d, n) == \E i \in 1..Len(d) : d[i].name = n

(* the k-th smallest member of a set of positions *)
Nth(idx, k) == CHOOSE i \in idx : Cardinality({j \in idx : j <= i}) = k

(* the names at the given positions of a require list, in document order *)
NamesAt(require, idx) ==
    [k \in 1..Cardinality(idx) |-> require[Nth(idx, k)].name]

(* the name at the last of the given positions, None when there is none *)
LastNameAt(require, idx) ==
    IF idx = {} THEN NoneVal
    ELSE require[CHOOSE i \in idx : \A j \in idx : j <= i].name

(* registry r has just been constructed *)
JustBuilt(r) ==
    call.op = "ExtensionRegistry" /\ call.self = r /\ call.tag = "ok"

(* what get_registry_entry returns for the name of element e *)
BuiltEntry(e) == get_registry_entry(registry, e.name)

(* C3: in_registry(name) on a constructed registry is false for every name *)
(* its own document marks supported="disabled", whatever other registries  *)
(* were constructed before or after it.                                     *)
C3_DisabledNeverInRegistry ==
    \A r \in Instances :
        inst[r] = "built" =>
            \A n \in RegNames :
                MarkedDisabled(doc[r], n) => ~in_registry(registry, n)

SameResult(a, b) == a.tag = b.tag /\ (a.tag = "entry" => a.val = b.val)

(* C4: once a registry is constructed, the results of its in_registry and  *)
(* get_registry_entry stay the same under every later operation, the       *)
(* construction of further registries included.                            *)
C4_ReadOnlyAfterConstruction ==
    [][\A r \in Instances :
          inst[r] = "built" =>
             \A n \in RegNames :
                /\ in_registry(registry', n) = in_registry(registry, n)
                /\ SameResult(get_registry_entry(registry', n),
                              get_registry_entry(registry, n))]_vars

(* C8: get_registry_entry(name) returns the stored entry when              *)
(* in_registry(name) is true and None when it is false; in particular it   *)
(* returns None for every extension that the registry's document marks     *)
(* disabled or does not contain.                                           *)
C8_AbsentForUnregistered ==
    call.op = "get_registry_entry" =>
        /\ in_registry(registry, call.arg) =>
              call.tag = "entry" /\ call.val = registry[call.arg]
        /\ ~in_registry(registry, call.arg) => call.tag = "None"
        /\ (MarkedDisabled(doc[call.self], call.arg)
            \/ ~Contains(doc[call.self], call.arg)) => call.tag = "None"

(* C9: for every enabled extension element, the entry's commands are, in   *)
(* document order and with duplicates kept, exactly the names of its       *)
(* require/command elements that have a non-empty name attribute. The      *)
(* entry is the one the construction has stored for the element.           *)
C9_NamedCommandsInOrder ==
    \A r \in Instances :
        JustBuilt(r) =>
            \A i \in 1..Len(doc[r]) :
                LET e == doc[r][i]
                    named == {k \in 1..Len(e.require) :
                                 /\ e.require[k].kind = "command"
                                 /\ e.require[k].name /= NoneVal
                                 /\ e.require[k].name /= <<>>}
                IN  Enabled(e) =>
                       /\ BuiltEntry(e).tag = "entry"
                       /\ BuiltEntry(e).val.commands = NamesAt(e.require, named)

(* C9's case: an enabled element requiring a command without a name and   *)
(* then a named one has been loaded, and its entry lists the named one     *)
C9_Witness ==
    /\ inst["R1"] = "built"
    /\ \E i \in 1..Len(doc["R1"]) :
          /\ Enabled(doc["R1"][i])
          /\ doc["R1"][i].require = <<Command(<<>>), Command(CmdG)>>
          /\ BuiltEntry(doc["R1"][i]).val.commands = <<CmdG>>

(* C5: for every enabled extension element, the entry's constants are, in  *)
(* document order, exactly the names of its require/enum elements that do  *)
(* not carry an "extends" attribute, whatever the attribute's value.       *)
C5_ConstantsWithoutExtends ==
    \A r \in Instances :
        JustBuilt(r) =>
            \A i \in 1..Len(doc[r]) :
                LET e == doc[r][i]
                    plain == {k \in 1..Len(e.require) :
                                 /\ e.require[k].kind = "enum"
                                 /\ e.require[k].extends = NoneVal}
                IN  Enabled(e) =>
                       /\ BuiltEntry(e).tag = "entry"
                       /\ BuiltEntry(e).val.constants = NamesAt(e.require, plain)

FeaturesAt(e) ==
    {k \in 1..Len(e.require) :
        e.require[k].kind = "type" /\ is_features_struct(e.require[k].name)}

PropertiesAt(e) ==
    {k \in 1..Len(e.require) :
        e.require[k].kind = "type" /\ is_properties_struct(e.require[k].name)}

(* C6 as stated: features_struct is the name of the last require/type      *)
(* element that satisfies is_features_struct, None if none does, and       *)
(* independently properties_struct is the name of the last one that        *)
(* satisfies is_properties_struct, None if none does.                      *)
C6_LastOfEachIndependently ==
    \A r \in Instances :
        JustBuilt(r) =>
            \A i \in 1..Len(doc[r]) :
                LET e == doc[r][i]
                IN  Enabled(e) =>
                       /\ BuiltEntry(e).tag = "entry"
                       /\ BuiltEntry(e).val.features_struct
                             = LastNameAt(e.require, FeaturesAt(e))
                       /\ BuiltEntry(e).val.properties_struct
                             = LastNameAt(e.require, PropertiesAt(e))

(* C6 as amended: features_struct is as stated; properties_struct is the   *)
(* name of the last require/type element that satisfies                    *)
(* is_properties_struct and does not satisfy is_features_struct, None if   *)
(* none does: a name that satisfies both is recorded as features_struct    *)
(* only.                                                                   *)
C6_LastFeaturesElseProperties ==
    \A r \in Instances :
        JustBuilt(r) =>
            \A i \in 1..Len(doc[r]) :
                LET e == doc[r][i]
                IN  Enabled(e) =>
                       /\ BuiltEntry(e).tag = "entry"
                       /\ BuiltEntry(e).val.features_struct
                             = LastNameAt(e.require, FeaturesAt(e))
                       /\ BuiltEntry(e).val.properties_struct
                             = LastNameAt(e.require, PropertiesAt(e) \ FeaturesAt(e))

(* C6's case: an enabled element requiring two types that both satisfy     *)
(* is_features_struct, the later one satisfying is_properties_struct too,  *)
(* has been loaded: the later one is its features_struct                   *)
C6_Witness ==
    /\ inst["R1"] = "built"
    /\ \E i \in 1..Len(doc["R1"]) :
          /\ Enabled(doc["R1"][i])
          /\ doc["R1"][i].require = <<Type(TypeF), Type(TypeFP)>>
          /\ BuiltEntry(doc["R1"][i]).val.features_struct = TypeFP
          /\ BuiltEntry(doc["R1"][i]).val.properties_struct = NoneVal

=============================================================================
